---- MODULE Spec2Model ----
(***************************************************************************)
(* pi_button_to_kbd (src/main.c): GPIO button interrupts are debounced and *)
(* translated into key events written to a uinput virtual keyboard.        *)
(*                                                                         *)
(* The model follows main() statement by statement: the one-time setup     *)
(* (export_pins, signal handlers, open_uinput, opening the value files),   *)
(* the poll loop with the clock guard, the debounce test, the settle       *)
(* delay, the level sample and the key emission, and the cleanup.  The     *)
(* environment supplies GPIO interrupts, the wall clock (it advances, and  *)
(* it can be stepped), the quit signal and the outcome of each system      *)
(* call whose result the code ignores or tests.                            *)
(*                                                                         *)
(* The wall clock is offset + real: real counts milliseconds of elapsed    *)
(* time, offset is whole seconds and changes only when the clock is        *)
(* stepped.  time(NULL) returns whole seconds, gettimeofday seconds and    *)
(* microseconds; time_t values are non-negative and fit 32 bits, so the    *)
(* difference of two of them does not overflow an int.                     *)
(***************************************************************************)
EXTENDS Integers, Sequences, FiniteSets

(***************************************************************************)
(* Program constants                                                       *)
(***************************************************************************)
EDGE_RISING == 1
EDGE_FALLING == 2
SEC_PER_YEAR == 31536000
CLOCK_ERROR_SECONDS == SEC_PER_YEAR
UP == 0
DOWN == 4096
BOUNCE_MSEC == 300
STARTUP_MSEC == 1000
BYTE_MASK == 255
\* linux/input-event-codes.h, as used by the mapping table and emit_keystroke
KEY_SPACE == 57
KEY_LEFTCTRL == 29
KEY_R == 19
EV_SYN == 0
EV_KEY == 1
SYN_REPORT == 0
INT_MAX == 2147483647
INT_MIN == -INT_MAX - 1

(***************************************************************************)
(* Bounds of the model                                                     *)
(***************************************************************************)
\* elapsed time explored, in milliseconds
MaxReal == 2200
\* number of times the wall clock is stepped
MaxJumps == 1

\* quanta by which elapsed time advances while the program waits
TickSteps == {200, 1000}
\* sub-second phases of the wall clock at process start
StartPhases == {800}
\* steps of the wall clock, in seconds: two years forward (first NTP sync),
\* 25 days forward (elapsed milliseconds no longer fit an int), one hour back
ClockSteps == {2 * SEC_PER_YEAR, 2200000, -3600}
\* wall clock seconds at process start
Epoch == SEC_PER_YEAR

(***************************************************************************)
(* C integer helpers                                                       *)
(***************************************************************************)
RECURSIVE BitAnd(_, _)
BitAnd(a, b) ==
    IF a = 0 \/ b = 0 THEN 0
    ELSE (IF a % 2 = 1 /\ b % 2 = 1 THEN 1 ELSE 0) + 2 * BitAnd(a \div 2, b \div 2)

RECURSIVE BitOr(_, _)
BitOr(a, b) ==
    IF a = 0 THEN b
    ELSE IF b = 0 THEN a
    ELSE (IF a % 2 = 1 \/ b % 2 = 1 THEN 1 ELSE 0) + 2 * BitOr(a \div 2, b \div 2)

Abs(x) == IF x < 0 THEN -x ELSE x

\* a - b in 32-bit two's complement (the subtraction wraps on overflow)
SubInt(a, b) ==
    IF b >= 0 /\ a < INT_MIN + b THEN (((a - INT_MIN) - b) + INT_MAX) + 1
    ELSE IF b < 0 /\ a > INT_MAX + b THEN ((a - INT_MAX) - (b + 1)) + INT_MIN
    ELSE a - b

(***************************************************************************)
(* The mapping table (sentinel-terminated arrays, as in the source)        *)
(***************************************************************************)
key_space == << BitOr(KEY_SPACE, DOWN), BitOr(KEY_SPACE, UP), 0 >>

key_ctrl_r == << BitOr(KEY_LEFTCTRL, DOWN), BitOr(KEY_R, DOWN),
                 BitOr(KEY_R, UP), BitOr(KEY_LEFTCTRL, UP), 0 >>

mappings == << [pin |-> 20, keys |-> key_space],
               [pin |-> 21, keys |-> key_ctrl_r],
               [pin |-> 0, keys |-> << >>] >>

\* main: pins[npins++] = m->pin until the sentinel
RECURSIVE CollectPins(_)
CollectPins(p) ==
    IF mappings[p].pin = 0 THEN << >>
    ELSE << mappings[p].pin >> \o CollectPins(p + 1)

pins == CollectPins(1)
npins == Len(pins)
Lines == 1 .. npins

\* get_mapping: index of the first entry for the pin, 0 for NULL
RECURSIVE ScanMapping(_, _)
ScanMapping(pin, p) ==
    IF mappings[p].pin = 0 THEN 0
    ELSE IF pin = mappings[p].pin THEN p
    ELSE ScanMapping(pin, p + 1)

\* a lookup that starts at the second entry of the table
get_mapping_from_second(pin) == ScanMapping(pin, 2)

\* get_mapping (pin)
get_mapping(pin) == ScanMapping(pin, 1)

(***************************************************************************)
(* State                                                                   *)
(***************************************************************************)
VARIABLES
    pc,          \* position of main()
    i,           \* loop index (i, p) of the loop main() is in
    k,           \* position in a key array (keystrokes), or step of export_pins
    edge,        \* int edge = EDGE
    quit,        \* static BOOL quit
    handlers,    \* the quit signal handlers are installed
    uinput,      \* the uinput descriptor: "none", "open" or "closed"
    keybits,     \* key codes for which ioctl (UI_SET_KEYBIT) has been issued
    created,     \* UI_DEV_CREATE has been issued
    setup_err,   \* some setup call failed without the program noticing
    start,       \* time_t start, the clock anchor
    ticks,       \* int ticks[]: time of the last accepted press of each line
    irq,         \* lines whose value file has an undrained interrupt
    revents,     \* lines whose fdset[i].revents has POLLPRI
    real,        \* elapsed milliseconds
    offset,      \* wall clock seconds at real = 0
    jumps,       \* number of steps of the wall clock so far
    total_msec,  \* int total_msec
    state,       \* int state, the sampled level
    written,     \* write() calls on the uinput descriptor for the current event
    wfail,       \* a write() of the current event returned an error
    outcome,     \* how the event being processed ended
    exit_code,   \* -1 while the process runs, then its exit status
    unexported,  \* pins whose unexport request has been written
    since_irq,   \* per line: elapsed ms since its previous interrupt was handled
    anchor_at,   \* value of real when the anchor was captured
    stale,       \* per line: ticks was recorded against an earlier anchor
    quit_polls   \* number of poll() calls that returned after quit was set

prog == << pc, i, k >>
setup == << edge, handlers, uinput, keybits, created, setup_err >>
clock == << real, offset, jumps >>
debounce == << start, ticks, anchor_at, stale >>
event == << total_msec, state, written, wfail, outcome >>
notify == << irq, revents, since_irq >>
ending == << quit, exit_code, unexported, quit_polls >>
vars == << prog, setup, clock, debounce, event, notify, ending >>

\* time (NULL)
Time == offset + real \div 1000
\* gettimeofday: tv_sec and tv_usec
tv_sec == offset + real \div 1000
tv_usec == (real % 1000) * 1000

\* #define EDGE EDGE_FALLING
EDGE == EDGE_FALLING

\* the process starts at elapsed time t0 with trigger edge e
InitAt(t0, e) ==
    /\ pc = "export" /\ i = 1 /\ k = 1
    /\ edge = e
    /\ quit = FALSE /\ handlers = FALSE
    /\ uinput = "none" /\ keybits = {} /\ created = FALSE /\ setup_err = FALSE
    /\ start = 0 /\ ticks = [l \in Lines |-> 0]
    /\ irq = {} /\ revents = {}
    /\ real = t0 /\ offset = Epoch /\ jumps = 0
    /\ total_msec = 0 /\ state = -1 /\ written = << >> /\ wfail = FALSE /\ outcome = "none"
    /\ exit_code = -1 /\ unexported = {}
    /\ since_irq = [l \in Lines |-> BOUNCE_MSEC]
    /\ anchor_at = 0
    /\ stale = [l \in Lines |-> FALSE]
    /\ quit_polls = 0

Init == \E t0 \in StartPhases : InitAt(t0, EDGE)

\* exit (status): the process ends at once; the parent sees status & 0377
Exit(status) ==
    /\ pc' = "exited"
    /\ exit_code' = status % 256

(***************************************************************************)
(* Setup                                                                   *)
(***************************************************************************)
\* outcomes of fopen/fprintf/fclose in write_to_file
FileResults == {"ok", "open_failed", "write_failed"}

\* write_to_file: a failed fopen ends the process, the result of the write
\* itself is not looked at
write_to_file(res) == IF res = "open_failed" THEN "exit" ELSE "return"

\* export_pins: for each pin the export, direction and edge files are written
ExportPins(res) ==
    /\ pc = "export"
    /\ IF write_to_file(res) = "exit"
       THEN /\ Exit(-1)
            /\ UNCHANGED << i, k, setup_err, quit, unexported, quit_polls >>
       ELSE /\ setup_err' = (setup_err \/ res = "write_failed")
            /\ IF k < 3 THEN i' = i /\ k' = k + 1 ELSE i' = i + 1 /\ k' = 1
            /\ pc' = IF k = 3 /\ i + 1 > npins THEN "signal" ELSE "export"
            /\ UNCHANGED ending
    /\ UNCHANGED << edge, handlers, uinput, keybits, created >>
    /\ UNCHANGED << clock, debounce, event, notify >>

\* signal (SIGQUIT/SIGTERM/SIGHUP/SIGINT, quit_signal)
InstallHandlers ==
    /\ pc = "signal"
    /\ handlers' = TRUE
    /\ pc' = "open_uinput"
    /\ UNCHANGED << i, k, edge, uinput, keybits, created, setup_err >>
    /\ UNCHANGED << clock, debounce, event, notify, ending >>

\* open_uinput: open ("/dev/uinput"); only fd > 0 counts as success
OpenUinput(fd) ==
    /\ pc = "open_uinput"
    /\ IF fd > 0
       THEN /\ uinput' = "open"
            /\ pc' = "set_evbit"
            /\ UNCHANGED ending
       ELSE /\ Exit(-1)
            /\ UNCHANGED << uinput, quit, unexported, quit_polls >>
    /\ UNCHANGED << i, k, edge, handlers, keybits, created, setup_err >>
    /\ UNCHANGED << clock, debounce, event, notify >>

\* open_uinput: ioctl (fd, UI_SET_EVBIT, EV_KEY), result ignored
SetEvbit(ok) ==
    /\ pc = "set_evbit"
    /\ setup_err' = (setup_err \/ ~ok)
    /\ pc' = "set_keybit" /\ i' = 1 /\ k' = 1
    /\ UNCHANGED << edge, handlers, uinput, keybits, created >>
    /\ UNCHANGED << clock, debounce, event, notify, ending >>

\* open_uinput: unsigned char raw_keystroke = *keystrokes & 0xFF
raw_keystroke(key) == BitAnd(key, BYTE_MASK)

\* open_uinput: the two nested while loops over the mapping table, one
\* ioctl (fd, UI_SET_KEYBIT, raw_keystroke) per step, result ignored
SetKeybit(ok) ==
    /\ pc = "set_keybit"
    /\ mappings[i].pin # 0
    /\ mappings[i].keys[k] # 0
    /\ keybits' = keybits \cup {raw_keystroke(mappings[i].keys[k])}
    /\ setup_err' = (setup_err \/ ~ok)
    /\ k' = k + 1
    /\ UNCHANGED << pc, i, edge, handlers, uinput, created >>
    /\ UNCHANGED << clock, debounce, event, notify, ending >>

\* open_uinput stopping at the first key array: p jumps to the sentinel
NextMappingFirstOnly ==
    /\ pc = "set_keybit"
    /\ mappings[i].pin # 0
    /\ mappings[i].keys[k] = 0
    /\ i' = npins + 1 /\ k' = 1
    /\ UNCHANGED << pc, setup, clock, debounce, event, notify, ending >>

\* open_uinput: end of one key array: p++, m = &mappings[p]
NextMapping ==
    /\ pc = "set_keybit"
    /\ mappings[i].pin # 0
    /\ mappings[i].keys[k] = 0
    /\ i' = i + 1 /\ k' = 1
    /\ UNCHANGED << pc, setup, clock, debounce, event, notify, ending >>

\* open_uinput: ioctl (fd, UI_DEV_SETUP, &usetup) after the table's sentinel
DevSetup(ok) ==
    /\ pc = "set_keybit"
    /\ mappings[i].pin = 0
    /\ setup_err' = (setup_err \/ ~ok)
    /\ pc' = "dev_create"
    /\ UNCHANGED << i, k, edge, handlers, uinput, keybits, created >>
    /\ UNCHANGED << clock, debounce, event, notify, ending >>

\* open_uinput: ioctl (fd, UI_DEV_CREATE), result ignored; return fd
DevCreate(ok) ==
    /\ pc = "dev_create"
    /\ created' = TRUE
    /\ setup_err' = (setup_err \/ ~ok)
    /\ pc' = "open_gpio" /\ i' = 1
    /\ UNCHANGED << k, edge, handlers, uinput, keybits >>
    /\ UNCHANGED << clock, debounce, event, notify, ending >>

\* main: open each pin's value file; gpio_fd < 0 ends the process
OpenGpio(gpio_fd) ==
    /\ pc = "open_gpio"
    /\ IF gpio_fd < 0
       THEN /\ Exit(-1)
            /\ UNCHANGED << i, quit, unexported, quit_polls >>
       ELSE /\ i' = i + 1
            /\ pc' = IF i + 1 > npins THEN "init_time" ELSE "open_gpio"
            /\ UNCHANGED ending
    /\ UNCHANGED << k, setup, clock, debounce, event, notify >>

\* main: time_t start = time (NULL); memset (ticks, 0, ...)
InitTime ==
    /\ pc = "init_time"
    /\ start' = Time
    /\ ticks' = [l \in Lines |-> 0]
    /\ anchor_at' = real
    /\ pc' = "loop"
    /\ UNCHANGED << i, k, stale, setup, clock, event, notify, ending >>

(***************************************************************************)
(* The poll loop                                                           *)
(***************************************************************************)
\* while (!quit || pending): keeps polling while interrupts are pending
LoopCondDrain == ~quit \/ irq # {}

\* while (!quit)
LoopCond == ~quit

\* main: the loop condition, then memcpy (&fdset, &fdset_base, ...) clears the
\* events of the last wakeup; leaving the loop leads to unexport_pins
Loop ==
    /\ pc = "loop"
    /\ IF LoopCond
       THEN pc' = "poll" /\ i' = i
       ELSE pc' = "unexport" /\ i' = 1
    /\ revents' = {}
    /\ UNCHANGED << k, irq, since_irq, setup, clock, debounce, event, ending >>

\* main: poll (fdset, npins, 3000) is entered
PollCall ==
    /\ pc = "poll"
    /\ pc' = "wait"
    /\ UNCHANGED << i, k, setup, clock, debounce, event, notify, ending >>

\* what a return of poll leaves behind: revents of every line, the scan begins
PollReturns(ready) ==
    /\ pc' = "scan" /\ i' = 1
    /\ revents' = ready

\* poll returns because lines have pending interrupts
PollActivity ==
    /\ pc = "wait"
    /\ irq # {}
    /\ PollReturns(irq)
    /\ quit_polls' = IF quit THEN quit_polls + 1 ELSE quit_polls
    /\ UNCHANGED << k, irq, since_irq, quit, exit_code, unexported >>
    /\ UNCHANGED << setup, clock, debounce, event >>

\* poll (fdset, npins, -1): a wait without a timeout never returns by itself
PollNoTimeout ==
    /\ pc = "wait"
    /\ FALSE
    /\ UNCHANGED vars

\* poll returns 0 when its timeout of 3000 ms ends with no line pending (the
\* length of the wait is not measured: the timeout can end at any moment)
PollTimeout ==
    /\ pc = "wait"
    /\ irq = {}
    /\ PollReturns({})
    /\ quit_polls' = IF quit THEN quit_polls + 1 ELSE quit_polls
    /\ UNCHANGED << k, irq, since_irq, quit, exit_code, unexported >>
    /\ UNCHANGED << setup, clock, debounce, event >>

\* main: for (i...) reaches npins: back to the loop condition
ScanDone ==
    /\ pc = "scan"
    /\ i > npins
    /\ pc' = "loop"
    /\ written' = << >> /\ wfail' = FALSE /\ outcome' = "none"
    /\ UNCHANGED << i, k, total_msec, state >>
    /\ UNCHANGED << setup, clock, debounce, notify, ending >>

\* main: fdset[i].revents has no POLLPRI: next line
ScanSkip ==
    /\ pc = "scan"
    /\ i <= npins
    /\ i \notin revents
    /\ i' = i + 1
    /\ written' = << >> /\ wfail' = FALSE /\ outcome' = "none"
    /\ UNCHANGED << pc, k, total_msec, state >>
    /\ UNCHANGED << setup, clock, debounce, notify, ending >>

\* the scan reading every line, whatever its revents
ReadEventAnyLine ==
    /\ pc = "scan"
    /\ i <= npins
    /\ irq' = irq \ {i}
    /\ written' = << >> /\ wfail' = FALSE
    /\ outcome' = "pending"
    /\ pc' = "guard"
    /\ UNCHANGED << i, k, total_msec, state, revents, since_irq >>
    /\ UNCHANGED << setup, clock, debounce, ending >>

\* main: read (fdset[i].fd, buff, sizeof (buff)) drains the line's interrupt
ReadEvent ==
    /\ pc = "scan"
    /\ i <= npins
    /\ i \in revents
    /\ irq' = irq \ {i}
    /\ written' = << >> /\ wfail' = FALSE
    /\ outcome' = "pending"
    /\ pc' = "guard"
    /\ UNCHANGED << i, k, total_msec, state, revents, since_irq >>
    /\ UNCHANGED << setup, clock, debounce, ending >>

\* elapsed milliseconds since line l's previous interrupt, once handled: 0
Handled(l) == [since_irq EXCEPT ![l] = 0]

\* anchor - now > CLOCK_ERROR_SECONDS: only a step backwards is noticed
ClockChangedBackwards(now, anchor) == anchor - now > CLOCK_ERROR_SECONDS

\* main: abs (time (NULL) - start) > CLOCK_ERROR_SECONDS
ClockChanged(now, anchor) == Abs(now - anchor) > CLOCK_ERROR_SECONDS

\* ticks[i] = total_msec moved inside the if of the edge test
UpdateOnlyIfEmitted ==
    /\ pc = "update"
    /\ ticks' = IF outcome = "Emitted"
                THEN [ticks EXCEPT ![i] = total_msec] ELSE ticks
    /\ stale' = [stale EXCEPT ![i] = FALSE]
    /\ i' = i + 1
    /\ pc' = "scan"
    /\ k' = 1 /\ total_msec' = 0 /\ state' = -1
    /\ UNCHANGED << start, anchor_at, written, wfail, outcome >>
    /\ UNCHANGED << setup, clock, notify, ending >>

\* anchor reset that also clears the last-accepted times
ClockGuardClearsTicks ==
    /\ pc = "guard"
    /\ IF ClockChanged(Time, start)
       THEN /\ start' = Time
            /\ ticks' = [l \in Lines |-> 0]
            /\ anchor_at' = real
            /\ stale' = [l \in Lines |-> TRUE]
            /\ outcome' = "ClockRejected"
            /\ since_irq' = Handled(i)
            /\ i' = i + 1
            /\ pc' = "scan"
       ELSE /\ pc' = "debounce"
            /\ UNCHANGED << i, start, ticks, anchor_at, stale, outcome, since_irq >>
    /\ UNCHANGED << k, total_msec, state, written, wfail, irq, revents >>
    /\ UNCHANGED << setup, clock, ending >>

\* main: the clock guard; a changed clock resets the anchor and ends the event
ClockGuard ==
    /\ pc = "guard"
    /\ IF ClockChanged(Time, start)
       THEN /\ start' = Time
            /\ anchor_at' = real
            /\ stale' = [l \in Lines |-> TRUE]
            /\ outcome' = "ClockRejected"
            /\ since_irq' = Handled(i)
            /\ i' = i + 1
            /\ pc' = "scan"
       ELSE /\ pc' = "debounce"
            /\ UNCHANGED << i, start, anchor_at, stale, outcome, since_irq >>
    /\ UNCHANGED << k, ticks, total_msec, state, written, wfail, irq, revents >>
    /\ UNCHANGED << setup, clock, ending >>

\* the value (tv.tv_sec - start) * 1000.0 + msec fits an int
FitsInt(d, msec) ==
    \/ d > -2147484 /\ d < 2147483
    \/ d = 2147483 /\ msec <= 647
    \/ d = -2147484 /\ msec >= 352

\* main: int msec = tv.tv_usec / 1000;
\*       int total_msec = (tv.tv_sec - start) * 1000.0 + msec;
\* the double is converted to int: out of range the result is undefined
\* (a saturating conversion gives INT_MAX or INT_MIN, x86 gives INT_MIN)
TotalMsec(sec, usec, anchor) ==
    LET msec == usec \div 1000
        d == sec - anchor
    IN  IF FitsInt(d, msec)
        THEN {IF d = -2147484 THEN (d + 1) * 1000 + (msec - 1000)
                               ELSE d * 1000 + msec}
        ELSE IF d > 0 THEN {INT_MAX, INT_MIN} ELSE {INT_MIN}

\* int bounce_time = BOUNCE_MSEC
bounce_time == BOUNCE_MSEC

\* total_msec > 1000 alone: the bounce window is not tested
AcceptsNoBounce(t, last) == t > STARTUP_MSEC

\* total_msec - ticks[i] > bounce_time alone: no startup grace
AcceptsNoGrace(t, last) == SubInt(t, last) > bounce_time

\* main: total_msec - ticks[i] > bounce_time && total_msec > 1000
Accepts(t, last) == SubInt(t, last) > bounce_time /\ t > STARTUP_MSEC

\* the debounce test recording the time of a rejected event too
DebounceRecordsRejected ==
    /\ pc = "debounce"
    /\ \E t \in TotalMsec(tv_sec, tv_usec, start) :
        IF Accepts(t, ticks[i])
        THEN /\ total_msec' = t
             /\ pc' = "settle"
             /\ UNCHANGED << i, outcome, ticks >>
        ELSE /\ total_msec' = 0
             /\ outcome' = "DebounceRejected"
             /\ ticks' = [ticks EXCEPT ![i] = t]
             /\ i' = i + 1
             /\ pc' = "scan"
    /\ since_irq' = Handled(i)
    /\ UNCHANGED << k, state, written, wfail, irq, revents >>
    /\ UNCHANGED << start, anchor_at, stale, setup, clock, ending >>

\* main: gettimeofday and the debounce test
Debounce ==
    /\ pc = "debounce"
    /\ \E t \in TotalMsec(tv_sec, tv_usec, start) :
        IF Accepts(t, ticks[i])
        THEN /\ total_msec' = t
             /\ pc' = "settle"
             /\ UNCHANGED << i, outcome >>
        ELSE /\ total_msec' = 0
             /\ outcome' = "DebounceRejected"
             /\ i' = i + 1
             /\ pc' = "scan"
    /\ since_irq' = Handled(i)
    /\ UNCHANGED << k, state, written, wfail, irq, revents >>
    /\ UNCHANGED << setup, clock, debounce, ending >>

\* main: usleep (2000)
Settle ==
    /\ pc = "settle"
    /\ pc' = "sample"
    /\ UNCHANGED << i, k, setup, clock, debounce, event, notify, ending >>

\* get_pin_state: rc bytes were read, the first is byte
get_pin_state(rc, byte) == IF rc = 2 THEN byte - 48 ELSE -1

\* state == 0 || state == 1: the configured edge is not consulted
EdgeMatchesAnyLevel(st, e) == st = 0 \/ st = 1

\* main: (state == 0 && (edge & EDGE_FALLING)) || (state == 1 && (edge & EDGE_RISING))
EdgeMatches(st, e) ==
    \/ st = 0 /\ BitAnd(e, EDGE_FALLING) # 0
    \/ st = 1 /\ BitAnd(e, EDGE_RISING) # 0

\* results of read() on the value file, and the first byte read ('0', '1', '\n')
ReadCounts == {-1, 2, 3}
ReadBytes == {48, 49, 10}

\* main: int state = get_pin_state (pin) and the edge test
Sample(rc, byte) ==
    /\ pc = "sample"
    /\ state' = get_pin_state(rc, byte)
    /\ IF EdgeMatches(state', edge)
       THEN pc' = "button_pressed" /\ UNCHANGED outcome
       ELSE pc' = "update" /\ outcome' = "EdgeMismatch"
    /\ UNCHANGED << i, k, total_msec, written, wfail >>
    /\ UNCHANGED << setup, clock, debounce, notify, ending >>

\* button_pressed: the mapping of the pin is looked up
ButtonPressed ==
    /\ pc = "button_pressed"
    /\ IF get_mapping(pins[i]) # 0
       THEN pc' = "emit" /\ k' = 1 /\ UNCHANGED outcome
       ELSE pc' = "update" /\ k' = k /\ outcome' = "NoMapping"
    /\ UNCHANGED << i, total_msec, state, written, wfail >>
    /\ UNCHANGED << setup, clock, debounce, notify, ending >>

\* emit_event: the struct input_event handed to write()
emit_event(type, code, val) == [type |-> type, code |-> code, value |-> val]

\* emit_keystroke without the synchronization event after a key release
emit_keystroke_nosync(key) ==
    IF BitAnd(key, DOWN) # 0
    THEN << emit_event(EV_KEY, BitAnd(key, BYTE_MASK), 1),
            emit_event(EV_SYN, SYN_REPORT, 0) >>
    ELSE << emit_event(EV_KEY, BitAnd(key, BYTE_MASK), 0),
            emit_event(EV_KEY, BitAnd(key, BYTE_MASK), 0) >>

\* emit_keystroke: the two events written for one entry of a key array
emit_keystroke(key) ==
    IF BitAnd(key, DOWN) # 0
    THEN << emit_event(EV_KEY, BitAnd(key, BYTE_MASK), 1),
            emit_event(EV_SYN, SYN_REPORT, 0) >>
    ELSE << emit_event(EV_KEY, BitAnd(key, BYTE_MASK), 0),
            emit_event(EV_SYN, SYN_REPORT, 0) >>

\* the key array button_pressed walks for line l
keystrokes(l) == mappings[get_mapping(pins[l])].keys

\* emit_event treating a failed write() as fatal
EmitKeyFatal(ok) ==
    /\ pc = "emit"
    /\ keystrokes(i)[k] # 0
    /\ IF ok
       THEN /\ written' = Append(written, emit_keystroke(keystrokes(i)[k])[1])
            /\ pc' = "emit_syn"
            /\ UNCHANGED << wfail, exit_code >>
       ELSE /\ Exit(-1)
            /\ wfail' = TRUE
            /\ UNCHANGED written
    /\ UNCHANGED << i, k, total_msec, state, outcome >>
    /\ UNCHANGED << quit, unexported, quit_polls >>
    /\ UNCHANGED << setup, clock, debounce, notify >>

\* button_pressed / emit_keystroke: the first write of one keystroke; emit_event
\* does not look at the result of write()
EmitKey(ok) ==
    /\ pc = "emit"
    /\ keystrokes(i)[k] # 0
    /\ written' = Append(written, emit_keystroke(keystrokes(i)[k])[1])
    /\ wfail' = (wfail \/ ~ok)
    /\ pc' = "emit_syn"
    /\ UNCHANGED << i, k, total_msec, state, outcome >>
    /\ UNCHANGED << setup, clock, debounce, notify, ending >>

\* emit_keystroke: the second write; keystrokes++
EmitSyn(ok) ==
    /\ pc = "emit_syn"
    /\ written' = Append(written, emit_keystroke(keystrokes(i)[k])[2])
    /\ wfail' = (wfail \/ ~ok)
    /\ k' = k + 1
    /\ pc' = "emit"
    /\ UNCHANGED << i, total_msec, state, outcome >>
    /\ UNCHANGED << setup, clock, debounce, notify, ending >>

\* button_pressed: while (*keystrokes) ends at the sentinel
EmitDone ==
    /\ pc = "emit"
    /\ keystrokes(i)[k] = 0
    /\ outcome' = "Emitted"
    /\ pc' = "update"
    /\ UNCHANGED << i, k, total_msec, state, written, wfail >>
    /\ UNCHANGED << setup, clock, debounce, notify, ending >>

\* a global debounce: the accepted time is recorded for every line
UpdateAllLines ==
    /\ pc = "update"
    /\ ticks' = [l \in Lines |-> total_msec]
    /\ stale' = [stale EXCEPT ![i] = FALSE]
    /\ i' = i + 1
    /\ pc' = "scan"
    /\ k' = 1 /\ total_msec' = 0 /\ state' = -1
    /\ UNCHANGED << start, anchor_at, written, wfail, outcome >>
    /\ UNCHANGED << setup, clock, notify, ending >>

\* main: ticks[i] = total_msec
Update ==
    /\ pc = "update"
    /\ ticks' = [ticks EXCEPT ![i] = total_msec]
    /\ stale' = [stale EXCEPT ![i] = FALSE]
    /\ i' = i + 1
    /\ pc' = "scan"
    /\ k' = 1 /\ total_msec' = 0 /\ state' = -1
    /\ UNCHANGED << start, anchor_at, written, wfail, outcome >>
    /\ UNCHANGED << setup, clock, notify, ending >>

(***************************************************************************)
(* Cleanup                                                                 *)
(***************************************************************************)
\* unexport_pins: one write_to_file per pin
UnexportPins(res) ==
    /\ pc = "unexport"
    /\ IF write_to_file(res) = "exit"
       THEN /\ Exit(-1)
            /\ UNCHANGED << i, unexported >>
       ELSE /\ unexported' = unexported \cup {pins[i]}
            /\ i' = i + 1
            /\ pc' = IF i + 1 > npins THEN "close" ELSE "unexport"
            /\ UNCHANGED exit_code
    /\ UNCHANGED << k, quit, quit_polls, setup, clock, debounce, event, notify >>

\* main returns without close_uinput
CloseUinputSkipped ==
    /\ pc = "close"
    /\ pc' = "done"
    /\ exit_code' = 0
    /\ UNCHANGED << i, k, setup, quit, unexported, quit_polls >>
    /\ UNCHANGED << clock, debounce, event, notify >>

\* close_uinput, then main returns (0, falling off the end of main)
CloseUinput ==
    /\ pc = "close"
    /\ uinput' = "closed"
    /\ pc' = "done"
    /\ exit_code' = 0
    /\ UNCHANGED << i, k, edge, handlers, keybits, created, setup_err >>
    /\ UNCHANGED << quit, unexported, quit_polls >>
    /\ UNCHANGED << clock, debounce, event, notify >>

(***************************************************************************)
(* Environment                                                             *)
(***************************************************************************)
Running == pc \notin {"exited", "done"}

\* quit_signal: quit = TRUE; a poll() in progress returns EINTR (Linux has
\* then written revents back with no line ready)
QuitSignal ==
    /\ handlers
    /\ Running
    /\ quit' = TRUE
    /\ IF pc = "wait"
       THEN /\ PollReturns({})
            /\ quit_polls' = quit_polls + 1
       ELSE UNCHANGED << pc, i, revents, quit_polls >>
    /\ UNCHANGED << k, irq, since_irq, exit_code, unexported >>
    /\ UNCHANGED << setup, clock, debounce, event >>

\* an edge on line l raises its interrupt; the program can notice it only in
\* poll or in the read that drains the line, so an interrupt raised while an
\* event is processed is taken as raised when the scan resumes
Interrupt(l) ==
    /\ pc \in {"loop", "poll", "wait", "scan"}
    /\ l \notin irq
    /\ irq' = irq \cup {l}
    /\ UNCHANGED << revents, since_irq >>
    /\ UNCHANGED << prog, setup, clock, debounce, event, ending >>

Min(a, b) == IF a < b THEN a ELSE b

\* d milliseconds pass while the program waits in poll (the 2 ms of usleep and
\* the time the processing takes are below the resolution of this clock)
Tick(d) ==
    /\ pc = "wait"
    /\ real + d <= MaxReal
    /\ real' = real + d
    /\ since_irq' = [l \in Lines |-> Min(since_irq[l] + d, BOUNCE_MSEC)]
    /\ UNCHANGED << offset, jumps, irq, revents >>
    /\ UNCHANGED << prog, setup, debounce, event, ending >>

\* the wall clock is stepped by j seconds while the program waits
ClockStep(j) ==
    /\ pc = "wait"
    /\ jumps < MaxJumps
    /\ offset' = offset + j
    /\ jumps' = jumps + 1
    /\ UNCHANGED << real, prog, setup, debounce, event, notify, ending >>

(***************************************************************************)
(* Specification                                                           *)
(***************************************************************************)
Main ==
    \/ \E res \in FileResults : ExportPins(res)
    \/ InstallHandlers
    \/ \E fd \in {-1, 0, 3} : OpenUinput(fd)
    \/ \E ok \in BOOLEAN : SetEvbit(ok)
    \/ \E ok \in BOOLEAN : SetKeybit(ok)
    \/ NextMapping
    \/ \E ok \in BOOLEAN : DevSetup(ok)
    \/ \E ok \in BOOLEAN : DevCreate(ok)
    \/ \E fd \in {-1, 4} : OpenGpio(fd)
    \/ InitTime
    \/ Loop
    \/ PollCall
    \/ PollActivity
    \/ PollTimeout
    \/ ScanDone
    \/ ScanSkip
    \/ ReadEvent
    \/ ClockGuard
    \/ Debounce
    \/ Settle
    \/ \E rc \in ReadCounts, byte \in ReadBytes : Sample(rc, byte)
    \/ ButtonPressed
    \/ \E ok \in BOOLEAN : EmitKey(ok)
    \/ \E ok \in BOOLEAN : EmitSyn(ok)
    \/ EmitDone
    \/ Update
    \/ \E res \in FileResults : UnexportPins(res)
    \/ CloseUinput

Env ==
    \/ QuitSignal
    \/ \E l \in Lines : Interrupt(l)
    \/ \E d \in TickSteps : Tick(d)
    \/ \E j \in ClockSteps : ClockStep(j)

Next == Main \/ Env

Spec == Init /\ [][Next]_vars

\* the scheduler keeps running the process: main() always takes its next step
\* (poll returns at the latest when its timeout ends)
\* the process starts late in the explored window
LateStart == MaxReal - 400
InitLate == InitAt(LateStart, EDGE)
SpecFair == InitLate /\ [][Next]_vars /\ WF_vars(Main)

\* the same, built with any trigger edge
InitEdges == \E e \in {EDGE_RISING, EDGE_FALLING, EDGE_RISING + EDGE_FALLING} :
                InitAt(LateStart, e)
SpecEdges == InitEdges /\ [][Next]_vars

(***************************************************************************)
(* Properties                                                              *)
(***************************************************************************)
\* positions of main() between the acceptance of an event and ticks[i] = ...
AcceptedPcs == {"settle", "sample", "button_pressed", "emit", "emit_syn", "update"}
\* positions of main() while one line's event is processed
EventPcs == {"guard", "debounce"} \cup AcceptedPcs
\* positions of main() in the cleanup after the loop
CleanupPcs == {"unexport", "close", "done"}
PinSet == {pins[l] : l \in Lines}
\* the loop has been entered: the anchor has been captured (time is never 0)
LoopEntered == start # 0

\* positions of main() inside the while loop
LoopPcs == {"loop", "poll", "wait", "scan"} \cup EventPcs
\* the elapsed milliseconds the debounce test would read now (clock not stepped)
ElapsedNow == (Time - start) * 1000 + (real % 1000)

\* C1 as stated, for a run whose wall clock is never stepped and a line that
\* has accepted an interrupt before: an interrupt that follows the previous
\* interrupt of its line by less than the bounce window is a later interrupt
\* of a burst and is never accepted by the debounce test.
C1_BurstOnlyFirstAccepted ==
    [][(pc = "debounce" /\ pc' = "settle" /\ jumps = 0 /\ ticks[i] > 0)
          => since_irq[i] >= BOUNCE_MSEC]_vars

\* C1 amended: the window is measured from the line's last ACCEPTED
\* interrupt: an interrupt is accepted only if its elapsed time exceeds the
\* line's last-accepted time by more than the bounce window; any other
\* interrupt is discarded, with no write to the device and the last-accepted
\* times unchanged.
C1_WindowFromLastAccepted ==
    [][(pc = "debounce" /\ pc' # "debounce")
          => IF pc' = "settle"
             THEN total_msec' - ticks[i] > BOUNCE_MSEC
             ELSE /\ pc' = "scan"
                  /\ outcome' = "DebounceRejected"
                  /\ ticks' = ticks
                  /\ written' = << >>]_vars

\* an interrupt inside the bounce window of an accepted one has been discarded
C1_Witness ==
    /\ pc = "scan" /\ i > 1
    /\ outcome = "DebounceRejected"
    /\ jumps = 0
    /\ ticks[i - 1] > STARTUP_MSEC
    /\ ElapsedNow - ticks[i - 1] > 0
    /\ ElapsedNow - ticks[i - 1] <= BOUNCE_MSEC

\* C2 as stated: in a run whose wall clock is never stepped, no event is
\* accepted less than the startup grace after the anchor was captured.
C2_GraceSinceAnchorCapture ==
    (jumps = 0 /\ pc \in AcceptedPcs) => real - anchor_at >= STARTUP_MSEC

\* C3 as stated: after an anchor reset, an interrupt on a line that has not
\* accepted anything since, read more than the startup grace after the new
\* anchor, is accepted whatever the line's earlier last-accepted time.
C3_AcceptedAfterReset ==
    [][(/\ pc = "debounce" /\ pc' # "debounce"
        /\ stale[i]
        /\ \A t \in TotalMsec(tv_sec, tv_usec, start) :
              t > STARTUP_MSEC /\ t < INT_MAX)
          => pc' = "settle"]_vars

\* C4: when the clock guard finds |now - anchor| above one year, the anchor
\* becomes now and the event ends there: no last-accepted time changes, the
\* level is not sampled, nothing is written to the device.
C4_ClockJumpDiscards ==
    [][(pc = "guard" /\ pc' # "guard" /\ Abs(Time - start) > SEC_PER_YEAR)
          => /\ start' = Time
             /\ ticks' = ticks
             /\ state' = state
             /\ written' = << >>
             /\ outcome' = "ClockRejected"
             /\ pc' = "scan" /\ i' = i + 1]_vars

\* the anchor has just been reset while a line holds a last-accepted time
C4_Witness ==
    /\ pc = "scan" /\ outcome = "ClockRejected"
    /\ start = Time
    /\ \E l \in Lines : ticks[l] > 0

\* the sampled level matches the configured trigger edge
LevelMatchesEdge ==
    \/ state = 0 /\ edge \in {EDGE_FALLING, EDGE_RISING + EDGE_FALLING}
    \/ state = 1 /\ edge \in {EDGE_RISING, EDGE_RISING + EDGE_FALLING}

\* C5: a write to the device happens only while the level sampled for the
\* event matches the configured edge, and an event that ended as a mismatch
\* has written nothing.
C5_EmitOnlyOnMatch ==
    [][/\ (written' # written /\ written' # << >>) => LevelMatchesEdge
       /\ outcome' = "EdgeMismatch" => written' = << >>]_vars

\* a key event is being written for level 1 with the rising edge configured
C5_Witness == written # << >> /\ state = 1 /\ edge = EDGE_RISING

\* number of transitions of line l's mapping (the entries before the sentinel)
NTransitions(l) == Len(mappings[l].keys) - 1

\* what the claim expects on the device for one accepted event of line l:
\* write 2n-1 is transition n (value 1 for down, 0 for up), write 2n a sync
ExpectedWrites(l) ==
    [n \in 1 .. 2 * NTransitions(l) |->
        IF n % 2 = 1
        THEN [type |-> EV_KEY,
              code |-> mappings[l].keys[(n + 1) \div 2] % DOWN,
              value |-> IF mappings[l].keys[(n + 1) \div 2] >= DOWN THEN 1 ELSE 0]
        ELSE [type |-> EV_SYN, code |-> SYN_REPORT, value |-> 0]]

\* C6: the writes of one accepted event are, in order, each transition of the
\* mapping followed by one sync: 2N writes in all, eight for line 21 and four
\* for line 20; while the sequence is emitted the writes so far are a prefix.
C6_EmissionOrder ==
    /\ pc \in {"emit", "emit_syn"}
          => /\ Len(written) <= 2 * NTransitions(i)
             /\ \A n \in 1 .. Len(written) : written[n] = ExpectedWrites(i)[n]
    /\ (pc = "update" /\ outcome = "Emitted")
          => /\ Len(written) = 2 * NTransitions(i)
             /\ \A n \in 1 .. Len(written) : written[n] = ExpectedWrites(i)[n]
             /\ pins[i] = 21 => Len(written) = 8
             /\ pins[i] = 20 => Len(written) = 4

\* the chord of line 21 has been written in full
C6_Witness ==
    pc = "update" /\ outcome = "Emitted" /\ pins[i] = 21 /\ Len(written) = 8

\* C7: the loop is left only by the loop condition finding quit set, after
\* the scan of the wakeup has run to its end; a quit that arrives while an
\* event is processed leaves main() in that processing; and at most one
\* poll returns after quit was set.
C7_QuitOnlyAtLoopCondition ==
    [][/\ (pc' = "unexport" /\ pc # "unexport")
             => (pc = "loop" /\ quit /\ i > npins)
       /\ (quit /\ pc \in EventPcs) => pc' \in EventPcs \cup {"scan"}
       /\ (pc = "loop" /\ quit) => pc' \in {"loop", "unexport"}
       /\ quit_polls' <= 1]_vars

\* quit arrived after the wakeup and a key sequence is still being written
C7_Witness == quit /\ quit_polls = 0 /\ pc = "emit_syn" /\ k = 2

\* C8: once quit is set while main() is in the loop, main() reaches the
\* cleanup (unexport_pins), also when no line ever shows activity.
C8_QuitLeadsToCleanup == (quit /\ pc \in LoopPcs) ~> (pc = "unexport")

\* the cleanup is reached with quit set and no interrupt ever handled
C8_Witness ==
    /\ quit /\ pc = "unexport"
    /\ irq = {}
    /\ \A l \in Lines : ticks[l] = 0 /\ since_irq[l] = BOUNCE_MSEC

\* C9 as stated: after a cancellation every line is unexported, the device
\* closed and the exit code 0; a nonzero exit code only for setup failures;
\* nothing is released on another path.
C9_CleanExitAfterCancel ==
    /\ (exit_code # -1 /\ LoopEntered)
          => (exit_code = 0 /\ unexported = PinSet /\ uinput = "closed")
    /\ exit_code \notin {-1, 0} => ~LoopEntered
    /\ (unexported # {} \/ uinput = "closed") => (quit /\ LoopEntered)

\* C9 amended: when the cleanup runs to its end, an unexport request has been
\* written for every line, the device is closed and the exit code is 0; a
\* nonzero exit code comes from a setup failure or from a failure to open
\* the unexport file during the cleanup, which ends the process with the
\* device still open and lines left exported; nothing is released unless the
\* loop was left by cancellation.
C9_CleanExitUnlessUnexportFails ==
    /\ pc = "done" <=> exit_code = 0
    /\ pc = "done" => (unexported = PinSet /\ uinput = "closed")
    /\ exit_code \notin {-1, 0}
          => /\ pc = "exited"
             /\ \/ ~LoopEntered
                \/ quit /\ unexported # PinSet /\ uinput = "open"
    /\ (unexported # {} \/ uinput = "closed") => (quit /\ LoopEntered)

\* main() has returned after the full cleanup
C9_Witness ==
    pc = "done" /\ exit_code = 0 /\ unexported = PinSet /\ uinput = "closed"

\* C10 as stated: after a failed setup step the poll loop is never entered.
C10_SetupFailureIsFatal == setup_err => pc \notin LoopPcs

\* every key code of the mapping table (the low byte of each entry)
AllKeyCodes ==
    UNION {{mappings[p].keys[q] % (BYTE_MASK + 1) : q \in DOMAIN mappings[p].keys} :
              p \in 1 .. npins} \ {0}

\* C11: when UI_DEV_CREATE is issued, UI_SET_KEYBIT has been issued for every
\* key code of every mapping; nothing is written to the device before it is
\* created; and every key code written is one of those declared.
C11_KeysDeclaredBeforeCreate ==
    /\ created => AllKeyCodes \subseteq keybits
    /\ written # << >> => created
    /\ \A n \in 1 .. Len(written) :
          written[n].type = EV_KEY => written[n].code \in keybits

\* the R of the chord of line 21 is written to the created device
C11_Witness ==
    /\ created
    /\ \E n \in 1 .. Len(written) :
          written[n].type = EV_KEY /\ written[n].code = KEY_R

\* the claim's acceptance condition for elapsed time t and last-accepted time
\* last (the grace test comes first: it keeps the difference in range)
ShouldAccept(t, last) == t > STARTUP_MSEC /\ t - last > BOUNCE_MSEC

\* C12: the debounce check accepts an event exactly when the elapsed time it
\* read exceeds the startup grace and exceeds the line's last-accepted time by
\* more than the bounce window; the accepted event's elapsed time becomes the
\* line's last-accepted time; so each change of a last-accepted time raises
\* it by more than the bounce window.
C12_AcceptIff ==
    [][/\ (pc = "debounce" /\ pc' = "settle")
             => /\ total_msec' \in TotalMsec(tv_sec, tv_usec, start)
                /\ ShouldAccept(total_msec', ticks[i])
       /\ (pc = "debounce" /\ pc' = "scan")
             => \E t \in TotalMsec(tv_sec, tv_usec, start) :
                   ~ShouldAccept(t, ticks[i])
       /\ (pc \in AcceptedPcs /\ pc' \in AcceptedPcs)
             => (total_msec' = total_msec /\ ticks' = ticks)
       /\ (pc \in AcceptedPcs /\ pc' \notin AcceptedPcs)
             => /\ pc = "update"
                /\ ticks' = [ticks EXCEPT ![i] = total_msec]
                /\ ShouldAccept(total_msec, ticks[i])
       /\ \A l \in Lines :
             ticks'[l] # ticks[l] => ticks'[l] - ticks[l] > BOUNCE_MSEC]_vars

\* a line that accepted an event before accepts another one
C12_Witness ==
    /\ pc \in AcceptedPcs
    /\ ticks[i] > STARTUP_MSEC
    /\ total_msec - ticks[i] > BOUNCE_MSEC

\* C13: an event the debounce check rejects changes nothing: every
\* last-accepted time and the anchor stay as they were, the level is not
\* sampled, nothing is written to the device, and the scan goes on with the
\* next line.
C13_RejectedChangesNothing ==
    [][(pc = "debounce" /\ pc' # "debounce" /\ pc' # "settle")
          => /\ ticks' = ticks
             /\ start' = start
             /\ state = -1 /\ state' = -1
             /\ written = << >> /\ written' = << >>
             /\ outcome' = "DebounceRejected"
             /\ pc' = "scan" /\ i' = i + 1
             /\ UNCHANGED << setup, clock, ending >>]_vars

\* an event is rejected while every line holds a last-accepted time
C13_Witness ==
    /\ pc = "scan" /\ outcome = "DebounceRejected"
    /\ \A l \in Lines : ticks[l] > STARTUP_MSEC
    /\ written = << >> /\ state = -1

\* C14: while the event of line i is processed no other line's last-accepted
\* time changes, and the decision of the debounce check is the one given by
\* the elapsed time read and line i's own last-accepted time.
C14_PerLineDebounce ==
    [][/\ pc \in EventPcs
             => \A l \in Lines \ {i} : ticks'[l] = ticks[l]
       /\ (pc = "debounce" /\ pc' # "debounce")
             => LET T == TotalMsec(tv_sec, tv_usec, start)
                IN  \E t \in T :
                       (pc' = "settle") = ShouldAccept(t, ticks[i])]_vars

\* in one wakeup line 1 was inside its bounce window and line 2 is accepted
C14_Witness ==
    /\ pc \in AcceptedPcs /\ i = 2
    /\ 1 \in revents
    /\ ticks[1] > STARTUP_MSEC
    /\ total_msec - ticks[1] <= BOUNCE_MSEC

\* C15 as stated: whenever the clock guard lets an event through, the value
\* the debounce test reads is the non-negative number of milliseconds between
\* the anchor and now: whole seconds since the anchor times 1000 plus the
\* millisecond part of the clock.
C15_ElapsedExact ==
    pc = "debounce"
       => \A t \in TotalMsec(tv_sec, tv_usec, start) :
             /\ t >= 0
             /\ t \div 1000 = tv_sec - start
             /\ t % 1000 = tv_usec \div 1000

\* C16: a return of poll reports the lines pending at that moment (none after
\* a timeout); the scan that follows visits the lines in order, once each: a
\* reported line is drained and enters the filter chain, whose end moves the
\* scan to the next line; a line not reported is passed over; and the next
\* wait starts only after the last line.
C16_OncePerWakeup ==
    [][/\ (pc = "wait" /\ pc' = "scan")
             => (i' = 1 /\ revents' \subseteq irq /\ (~quit' => revents' = irq))
       /\ (pc \in {"scan"} \cup EventPcs /\ pc' # "loop") => revents' = revents
       /\ (pc = "scan" /\ pc' = "guard")
             => (i \in revents /\ i' = i /\ i \notin irq')
       /\ (pc = "scan" /\ pc' = "scan")
             => \/ i' = i
                \/ i' = i + 1 /\ i \notin revents /\ irq' = irq
       /\ (pc \in EventPcs /\ pc' \in EventPcs) => i' = i
       /\ (pc \in EventPcs /\ pc' \notin EventPcs)
             => (pc' = "scan" /\ i' = i + 1)
       /\ (pc = "scan" /\ pc' \notin {"scan", "guard"})
             => (pc' = "loop" /\ i > npins)]_vars

\* a wakeup for line 2 alone: line 2 went through the chain; line 1, which
\* interrupted after poll had returned, was passed over
C16_Witness ==
    /\ pc = "scan" /\ i = 3
    /\ revents = {2}
    /\ outcome \in {"DebounceRejected", "EdgeMismatch", "Emitted"}
    /\ 1 \in irq

\* the four ways the processing of a line's event ends
Outcomes == {"ClockRejected", "DebounceRejected", "EdgeMismatch", "Emitted"}

\* C17: the processing of a pending line always ends, with one of the four
\* outcomes and main() back in the scan of the wakeup, and main() then
\* reaches the loop condition: whatever the level read returns, whatever the
\* clock does and whether or not the writes to the device succeed.
C17_EveryEventEnds ==
    /\ (outcome = "pending") ~> (pc = "scan" /\ outcome \in Outcomes)
    /\ (pc \in EventPcs) ~> (pc = "loop")
    /\ [](outcome \in {"none", "pending"} \cup Outcomes)
    /\ [](outcome = "pending" => pc \in EventPcs)

\* a key sequence was emitted to its end although a write failed
C17_Witness == pc = "scan" /\ outcome = "Emitted" /\ wfail

\* C18: every line of the poll set has an entry in the mapping table, so that
\* button_pressed never takes its not-found branch; a lookup changes nothing
\* but the position of main(); and the key array found for a line is the
\* same at every lookup: the one of the line's table entry.
C18_MappingAlwaysFound ==
    /\ [](/\ \A l \in Lines : get_mapping(pins[l]) \in 1 .. npins
          /\ \A l \in Lines : mappings[get_mapping(pins[l])].pin = pins[l]
          /\ outcome # "NoMapping"
          /\ pc \in {"emit", "emit_syn"}
                => /\ get_mapping(pins[i]) # 0
                   /\ keystrokes(i) = mappings[i].keys
                   /\ k \in DOMAIN keystrokes(i))
    /\ [][(pc = "button_pressed" /\ pc' # pc)
             => /\ pc' = "emit" /\ k' = 1
                /\ UNCHANGED << i, setup, clock, debounce, event, notify, ending >>]_vars

\* the lookup for line 20 has succeeded and its first key is about to be sent
C18_Witness == pc = "emit" /\ pins[i] = 20 /\ k = 1 /\ written = << >>

\* C19: when the level sampled after an accepted event does not match the
\* trigger edge, nothing is written to the device and the line's
\* last-accepted time still becomes the event's elapsed time, as it does
\* after an emission: the value the next debounce test of the line reads.
C19_MismatchStillRecorded ==
    [][/\ (pc = "sample" /\ pc' # pc /\ ~EdgeMatches(state', edge))
             => (pc' = "update" /\ outcome' = "EdgeMismatch")
       /\ (pc = "update" /\ pc' # pc)
             => /\ outcome \in {"EdgeMismatch", "Emitted"}
                /\ outcome = "EdgeMismatch" => written = << >>
                /\ ticks'[i] = total_msec
                /\ total_msec - ticks[i] > BOUNCE_MSEC
                /\ \A d \in 0 .. BOUNCE_MSEC :
                      total_msec <= INT_MAX - d
                         => ~Accepts(total_msec + d, ticks'[i])]_vars

\* a mismatch has just been recorded as the line's last-accepted time
C19_Witness ==
    /\ pc = "scan" /\ i > 1
    /\ outcome = "EdgeMismatch"
    /\ ticks[i - 1] > STARTUP_MSEC /\ ticks[i - 1] < INT_MAX - BOUNCE_MSEC
    /\ state = -1 /\ written = << >>

\* C20: every last-accepted time is 0 when the loop is entered and never
\* decreases: a change raises it by more than the bounce window, to a value
\* above the startup grace, and a step that resets the anchor changes none.
C20_LastAcceptedMonotonic ==
    /\ \A l \in Lines : ticks[l] = 0
    /\ [](~LoopEntered => \A l \in Lines : ticks[l] = 0)
    /\ [][/\ \A l \in Lines :
               /\ ticks'[l] >= ticks[l]
               /\ ticks'[l] # ticks[l]
                     => /\ ticks'[l] > STARTUP_MSEC
                        /\ ticks'[l] - ticks[l] > BOUNCE_MSEC
          /\ (start' # start /\ LoopEntered) => ticks' = ticks]_vars

\* line 1 accepted before the anchor reset, line 2 after it
C20_Witness ==
    /\ pc = "scan" /\ jumps = 1
    /\ anchor_at > 0 /\ start = offset + anchor_at \div 1000
    /\ \A l \in Lines : stale[l] = (l = 1)
    /\ ticks[1] > STARTUP_MSEC /\ ticks[2] > STARTUP_MSEC

====
